---- MODULE Spec2Model ----
(***************************************************************************)
(* Model of the PDF text finder: the matching strategies and their        *)
(* factory (strategies.py), the data carriers (models.py) and the request *)
(* handlers (main.py).                                                    *)
(*                                                                         *)
(* A Python str is a sequence of one-character strings.  A Python float   *)
(* that is a ratio of two small integers is the pair <<num, den>> in      *)
(* lowest terms (den > 0); two such floats compare as the fractions do.   *)
(***************************************************************************)
EXTENDS Integers, Sequences, FiniteSets, TLC

VARIABLES
    StrategyFactory_strategies, \* strategies.py: StrategyFactory._strategies
    instance,                   \* the strategy object the caller holds
    op,                         \* the operation that ran last
    args,                       \* its arguments
    ret,                        \* what it returned or raised
    uploaded_files,             \* main.py: uploaded_files (file id -> path)
    disk,                       \* path -> content, for the paths that exist
    effects,                    \* collaborators the last handler called, in order
    shared_words,               \* a word list shared by concurrent callers
    calls                       \* the frames of the concurrent find_matches calls

vars == <<StrategyFactory_strategies, instance, op, args, ret,
          uploaded_files, disk, effects, shared_words, calls>>

----------------------------------------------------------------------------
(* Bounds *)

MaxWords == 2       \* longest word sequence handed to find_matches
MaxLen == 3         \* longest string whose ratio is compared in both orders
NumCallers == 2     \* concurrent find_matches calls
MaxUploads == 1     \* file ids uuid4 can hand out

----------------------------------------------------------------------------
(* Python str *)

None == [cls |-> "None"]

Upper == <<"A","B","C","D","E","F","G","H","I","J","K","L","M",
           "N","O","P","Q","R","S","T","U","V","W","X","Y","Z">>
Lower == <<"a","b","c","d","e","f","g","h","i","j","k","l","m",
           "n","o","p","q","r","s","t","u","v","w","x","y","z">>
Digits == <<"0","1","2","3","4","5","6","7","8","9">>
Whitespace == {" ", "\t", "\n"}

\* str.lower() on one character
lower_char(c) ==
    IF \E k \in 1..26 : Upper[k] = c
    THEN Lower[CHOOSE k \in 1..26 : Upper[k] = c]
    ELSE c

\* str.lower()
lower(s) == [k \in 1..Len(s) |-> lower_char(s[k])]

\* str.strip(): drop the leading and the trailing whitespace
strip(s) ==
    LET keep == {k \in 1..Len(s) : s[k] \notin Whitespace}
    IN  IF keep = {} THEN <<>>
        ELSE LET first == CHOOSE k \in keep : \A m \in keep : k <= m
                 last == CHOOSE k \in keep : \A m \in keep : m <= k
             IN  SubSeq(s, first, last)

\* x in s, for two strings
contains(x, s) ==
    \E k \in 0..(Len(s) - Len(x)) : SubSeq(s, k + 1, k + Len(x)) = x

\* s.endswith(suffix)
endswith(s, suffix) ==
    /\ Len(suffix) <= Len(s)
    /\ SubSeq(s, Len(s) - Len(suffix) + 1, Len(s)) = suffix

----------------------------------------------------------------------------
(* Python float, for the values 2*M/T and the thresholds *)

RECURSIVE GCD(_, _)
GCD(m, n) == IF n = 0 THEN m ELSE GCD(n, m % n)

Abs(n) == IF n < 0 THEN 0 - n ELSE n

\* the float n/d (d > 0)
Frac(n, d) == LET g == GCD(Abs(n), d) IN <<n \div g, d \div g>>

One == <<1, 1>>
Zero == <<0, 1>>

\* x >= y
Geq(x, y) == x[1] * y[2] >= y[1] * x[2]

----------------------------------------------------------------------------
(* difflib.SequenceMatcher(None, a, b), for b shorter than 200 characters *)
(* (no junk, no popular characters).  Indices are Python's: a[i] is the   *)
(* TLA+ a[i + 1], and a block is a[i:i+k] = b[j:j+k].                     *)

\* a[i:i+k] == b[j:j+k] within a[alo:ahi] and b[blo:bhi]
IsBlock(a, b, alo, ahi, blo, bhi, i, j, k) ==
    /\ alo <= i /\ i + k <= ahi
    /\ blo <= j /\ j + k <= bhi
    /\ \A d \in 1..k : a[i + d] = b[j + d]

\* SequenceMatcher.find_longest_match: the longest block; of those the one
\* starting earliest in a; of those the one starting earliest in b;
\* (alo, blo, 0) if there is none.
find_longest_match(a, b, alo, ahi, blo, bhi) ==
    LET blocks == {t \in (alo..ahi) \X (blo..bhi) \X (1..(ahi - alo)) :
                     IsBlock(a, b, alo, ahi, blo, bhi, t[1], t[2], t[3])}
    IN  IF blocks = {} THEN <<alo, blo, 0>>
        ELSE CHOOSE t \in blocks :
               \A u \in blocks :
                  \/ t[3] > u[3]
                  \/ t[3] = u[3] /\ t[1] < u[1]
                  \/ t[3] = u[3] /\ t[1] = u[1] /\ t[2] <= u[2]

\* SequenceMatcher.get_matching_blocks, summed: the block, then the pieces
\* to its left, then the pieces to its right.
RECURSIVE get_matching_blocks(_, _, _, _, _, _)
get_matching_blocks(a, b, alo, ahi, blo, bhi) ==
    LET x == find_longest_match(a, b, alo, ahi, blo, bhi)
        i == x[1]
        j == x[2]
        k == x[3]
    IN  IF k = 0 THEN 0
        ELSE k
             + (IF alo < i /\ blo < j THEN get_matching_blocks(a, b, alo, i, blo, j) ELSE 0)
             + (IF i + k < ahi /\ j + k < bhi
                THEN get_matching_blocks(a, b, i + k, ahi, j + k, bhi) ELSE 0)

\* difflib._calculate_ratio
calculate_ratio(m, length) ==
    IF length # 0 THEN Frac(2 * m, length) ELSE One

\* ratio() dividing by twice the length of a
ratio_of_a(a, b) ==
    calculate_ratio(get_matching_blocks(a, b, 0, Len(a), 0, Len(b)), Len(a) + Len(a))

\* SequenceMatcher(None, a, b).ratio()
ratio(a, b) ==
    calculate_ratio(get_matching_blocks(a, b, 0, Len(a), 0, Len(b)), Len(a) + Len(b))

----------------------------------------------------------------------------
(* re.compile and Pattern.search, for patterns written with letters,      *)
(* digits, blanks and the metacharacters ^ . [ ] { } (no flags).          *)

IsDigit(c) == \E k \in 1..10 : Digits[k] = c

DigitValue(c) == (CHOOSE k \in 1..10 : Digits[k] = c) - 1

\* re._constants.MAXREPEAT (2**32 - 1), in decimal digits
MAXREPEAT == <<"4","2","9","4","9","6","7","2","9","5">>

\* a string of decimal digits without its leading zeros
RECURSIVE Significant(_)
Significant(ds) ==
    IF ds # <<>> /\ Head(ds) = "0" THEN Significant(Tail(ds)) ELSE ds

\* int(x) >= int(y), for two strings of decimal digits
DecGeq(x, y) ==
    LET sx == Significant(x)
        sy == Significant(y)
    IN  \/ Len(sx) > Len(sy)
        \/ /\ Len(sx) = Len(sy)
           /\ \/ sx = sy
              \/ \E k \in 1..Len(sx) :
                    /\ SubSeq(sx, 1, k - 1) = SubSeq(sy, 1, k - 1)
                    /\ DigitValue(sx[k]) > DigitValue(sy[k])

RECURSIVE DecValue(_)
DecValue(ds) ==
    IF ds = <<>> THEN 0
    ELSE 10 * DecValue(SubSeq(ds, 1, Len(ds) - 1)) + DigitValue(ds[Len(ds)])

\* int(ds) below MAXREPEAT; a count of ten digits is kept as 10^9, which
\* no text of the model is long enough to tell apart from it
RepeatCount(ds) ==
    IF Len(Significant(ds)) > 9 THEN 1000000000 ELSE DecValue(Significant(ds))

\* the position after the digits that start at pos
RECURSIVE SkipDigits(_, _)
SkipDigits(src, pos) ==
    IF pos < Len(src) /\ IsDigit(src[pos + 1]) THEN SkipDigits(src, pos + 1)
    ELSE pos

\* re._parser._parse, the loop over a character set after "[" and "^":
\* "]" closes the set unless it is its first member
RECURSIVE parse_set(_, _, _)
parse_set(src, pos, set) ==
    IF pos >= Len(src) THEN [exc |-> "re.error"]
    ELSE LET this == src[pos + 1]
         IN  IF this = "]" /\ set # {} THEN [exc |-> "none", pos |-> pos + 1, set |-> set]
             ELSE parse_set(src, pos + 1, set \cup {this})

\* re._parser._parse: pos characters of src are read, subpattern is the
\* items parsed so far
RECURSIVE parse(_, _, _)
parse(src, pos, subpattern) ==
    IF pos >= Len(src) THEN [exc |-> "none", pattern |-> subpattern]
    ELSE
    LET this == src[pos + 1]
        next == IF pos + 1 < Len(src) THEN src[pos + 2] ELSE "None"
    IN  CASE this = "[" ->
               LET negate == next = "^"
                   s == parse_set(src, IF negate THEN pos + 2 ELSE pos + 1, {})
               IN  IF s.exc # "none" THEN [exc |-> s.exc]
                   ELSE parse(src, s.pos,
                              Append(subpattern,
                                     [op |-> "IN", negate |-> negate, set |-> s.set]))
          [] this = "^" -> parse(src, pos + 1, Append(subpattern, [op |-> "AT"]))
          [] this = "." -> parse(src, pos + 1, Append(subpattern, [op |-> "ANY"]))
          [] this = "{" ->
               LET here == pos + 1
                   end == SkipDigits(src, here)
                   lo == SubSeq(src, here + 1, end)
                   closed == end < Len(src) /\ src[end + 1] = "}"
               IN  IF next = "}" \/ ~closed
                   THEN parse(src, here, Append(subpattern, [op |-> "LITERAL", c |-> this]))
                   ELSE IF DecGeq(lo, MAXREPEAT) THEN [exc |-> "OverflowError"]
                   ELSE IF subpattern = <<>> \/ subpattern[Len(subpattern)].op = "AT"
                   THEN [exc |-> "re.error"]
                   ELSE IF subpattern[Len(subpattern)].op = "MAX_REPEAT"
                   THEN [exc |-> "re.error"]
                   ELSE parse(src, end + 1,
                              Append(SubSeq(subpattern, 1, Len(subpattern) - 1),
                                     [op |-> "MAX_REPEAT", n |-> RepeatCount(lo),
                                      item |-> subpattern[Len(subpattern)]]))
          [] OTHER -> parse(src, pos + 1, Append(subpattern, [op |-> "LITERAL", c |-> this]))

\* re.compile(query)
re_compile(query) == parse(query, 0, <<>>)

\* one item of a pattern against one character
item_matches(item, c) ==
    CASE item.op = "LITERAL" -> c = item.c
      [] item.op = "ANY" -> c # "\n"
      [] item.op = "IN" -> (c \in item.set) # item.negate
      [] OTHER -> FALSE

\* the items from the k-th on match the text from position pos on
RECURSIVE match(_, _, _, _)
match(pattern, k, text, pos) ==
    IF k > Len(pattern) THEN TRUE
    ELSE LET item == pattern[k]
         IN  CASE item.op = "AT" -> pos = 0 /\ match(pattern, k + 1, text, pos)
               [] item.op = "MAX_REPEAT" ->
                    /\ pos + item.n <= Len(text)
                    /\ \A d \in 1..item.n : item_matches(item.item, text[pos + d])
                    /\ match(pattern, k + 1, text, pos + item.n)
               [] OTHER ->
                    /\ pos < Len(text)
                    /\ item_matches(item, text[pos + 1])
                    /\ match(pattern, k + 1, text, pos + 1)

\* Pattern.search(text) is not None
search(pattern, text) == \E pos \in 0..Len(text) : match(pattern, 1, text, pos)

----------------------------------------------------------------------------
(* models.py *)

\* Word(text=, x0=, y0=, x1=, y1=, page=)
Word(text, x0, y0, x1, y1, page) ==
    [text |-> text, x0 |-> x0, y0 |-> y0, x1 |-> x1, y1 |-> y1, page |-> page]

\* BoundingBox(x0=, y0=, x1=, y1=, page=, matched_text=, confidence=)
BoundingBox(x0, y0, x1, y1, page, matched_text, confidence) ==
    [x0 |-> x0, y0 |-> y0, x1 |-> x1, y1 |-> y1, page |-> page,
     matched_text |-> matched_text, confidence |-> confidence]

\* a call that returned v
Return(v) == [kind |-> "return", value |-> v]

\* a call that raised exception exc
Raise(exc, detail) == [kind |-> "raise", exc |-> exc, detail |-> detail]

----------------------------------------------------------------------------
(* strategies.py: the four strategies *)

\* ExactMatchStrategy.find_matches comparing normalised texts
ExactMatchStrategy_body_normalized(query, word, matches) ==
    IF strip(lower(query)) = strip(lower(word.text))
    THEN Append(matches, BoundingBox(word.x0, word.y0, word.x1, word.y1,
                                     word.page, word.text, One))
    ELSE matches

\* ExactMatchStrategy.find_matches, the body of the loop
ExactMatchStrategy_body(query, word, matches) ==
    IF query = word.text
    THEN Append(matches, BoundingBox(word.x0, word.y0, word.x1, word.y1,
                                     word.page, word.text, One))
    ELSE matches

RECURSIVE ExactMatchStrategy_for(_, _, _, _)
ExactMatchStrategy_for(query, words, i, matches) ==
    IF i > Len(words) THEN matches
    ELSE ExactMatchStrategy_for(query, words, i + 1,
                                ExactMatchStrategy_body(query, words[i], matches))

ExactMatchStrategy_find_matches(query, words) ==
    Return(ExactMatchStrategy_for(query, words, 1, <<>>))

\* FuzzyMatchStrategy.__init__ default
DefaultThreshold == <<4, 5>>

\* FuzzyMatchStrategy.find_matches with ratio > threshold
FuzzyMatchStrategy_body_strict(self, query, word, matches) ==
    LET r == ratio(lower(query), lower(word.text))
    IN  IF ~Geq(self.threshold, r)
        THEN Append(matches, BoundingBox(word.x0, word.y0, word.x1, word.y1,
                                         word.page, word.text, r))
        ELSE matches

\* FuzzyMatchStrategy.find_matches, the body of the loop
FuzzyMatchStrategy_body(self, query, word, matches) ==
    LET r == ratio(lower(query), lower(word.text))
    IN  IF Geq(r, self.threshold)
        THEN Append(matches, BoundingBox(word.x0, word.y0, word.x1, word.y1,
                                         word.page, word.text, r))
        ELSE matches

RECURSIVE FuzzyMatchStrategy_for(_, _, _, _, _)
FuzzyMatchStrategy_for(self, query, words, i, matches) ==
    IF i > Len(words) THEN matches
    ELSE FuzzyMatchStrategy_for(self, query, words, i + 1,
                                FuzzyMatchStrategy_body(self, query, words[i], matches))

FuzzyMatchStrategy_find_matches(self, query, words) ==
    Return(FuzzyMatchStrategy_for(self, query, words, 1, <<>>))

\* RegexMatchStrategy.find_matches with matches.insert(0, ...)
RegexMatchStrategy_body_insert(pattern, word, matches) ==
    IF search(pattern, word.text)
    THEN <<BoundingBox(word.x0, word.y0, word.x1, word.y1,
                       word.page, word.text, One)>> \o matches
    ELSE matches

\* RegexMatchStrategy.find_matches, the body of the loop
RegexMatchStrategy_body(pattern, word, matches) ==
    IF search(pattern, word.text)
    THEN Append(matches, BoundingBox(word.x0, word.y0, word.x1, word.y1,
                                     word.page, word.text, One))
    ELSE matches

RECURSIVE RegexMatchStrategy_for(_, _, _, _)
RegexMatchStrategy_for(pattern, words, i, matches) ==
    IF i > Len(words) THEN matches
    ELSE RegexMatchStrategy_for(pattern, words, i + 1,
                                RegexMatchStrategy_body(pattern, words[i], matches))

\* try: re.compile ... except re.error: pass; any other exception of
\* re.compile leaves the function
RegexMatchStrategy_find_matches(query, words) ==
    LET c == re_compile(query)
    IN  IF c.exc = "re.error" THEN Return(<<>>)
        ELSE IF c.exc # "none" THEN Raise(c.exc, query)
        ELSE Return(RegexMatchStrategy_for(c.pattern, words, 1, <<>>))

\* .lower() without .strip()
normalize_lower_only(s) == lower(s)

\* query.lower().strip(), word.text.lower().strip()
normalize(s) == strip(lower(s))

\* ContainsMatchStrategy.find_matches, the body of the loop
ContainsMatchStrategy_body(normalized_query, word, matches) ==
    LET normalized_word == normalize(word.text)
    IN  IF contains(normalized_query, normalized_word)
        THEN Append(matches, BoundingBox(word.x0, word.y0, word.x1, word.y1,
                                         word.page, word.text, One))
        ELSE matches

RECURSIVE ContainsMatchStrategy_for(_, _, _, _)
ContainsMatchStrategy_for(normalized_query, words, i, matches) ==
    IF i > Len(words) THEN matches
    ELSE ContainsMatchStrategy_for(normalized_query, words, i + 1,
             ContainsMatchStrategy_body(normalized_query, words[i], matches))

ContainsMatchStrategy_find_matches(query, words) ==
    Return(ContainsMatchStrategy_for(normalize(query), words, 1, <<>>))

\* strategy.find_matches(query, words), by the class of the object
find_matches(self, query, words) ==
    CASE self.cls = "ExactMatchStrategy" -> ExactMatchStrategy_find_matches(query, words)
      [] self.cls = "FuzzyMatchStrategy" -> FuzzyMatchStrategy_find_matches(self, query, words)
      [] self.cls = "RegexMatchStrategy" -> RegexMatchStrategy_find_matches(query, words)
      [] self.cls = "ContainsMatchStrategy" -> ContainsMatchStrategy_find_matches(query, words)

----------------------------------------------------------------------------
(* strategies.py: StrategyFactory *)

\* StrategyFactory._strategies as the class is defined, in insertion order
Registry ==
    << <<"exact", "ExactMatchStrategy">>, <<"fuzzy", "FuzzyMatchStrategy">>,
       <<"regex", "RegexMatchStrategy">>, <<"contains", "ContainsMatchStrategy">> >>

\* list(d.keys())
keys(d) == [k \in 1..Len(d) |-> d[k][1]]

\* d[name]
lookup(d, name) == d[CHOOSE k \in 1..Len(d) : d[k][1] = name][2]

\* cls(**kwargs): only FuzzyMatchStrategy defines __init__, the other
\* classes take no argument
construct(cls, kwargs) ==
    IF cls = "FuzzyMatchStrategy"
    THEN IF DOMAIN kwargs \subseteq {"threshold"}
         THEN Return([cls |-> cls,
                      threshold |-> IF "threshold" \in DOMAIN kwargs
                                    THEN kwargs.threshold ELSE DefaultThreshold])
         ELSE Raise("TypeError", cls)
    ELSE IF DOMAIN kwargs = {} THEN Return([cls |-> cls])
         ELSE Raise("TypeError", cls)

\* StrategyFactory.create falling back to the exact strategy
StrategyFactory_create_default(strategies, name, kwargs) ==
    IF \A k \in 1..Len(strategies) : strategies[k][1] # name
    THEN construct("ExactMatchStrategy", <<>>)
    ELSE construct(lookup(strategies, name), kwargs)

\* StrategyFactory.create(name, **kwargs)
StrategyFactory_create(strategies, name, kwargs) ==
    IF \A k \in 1..Len(strategies) : strategies[k][1] # name
    THEN Raise("ValueError", [unknown |-> name, available |-> keys(strategies)])
    ELSE construct(lookup(strategies, name), kwargs)

\* StrategyFactory.available_strategies()
StrategyFactory_available_strategies(strategies) == keys(strategies)

----------------------------------------------------------------------------
(* The inputs of the model *)

Hello == <<"H","e","l","l","o">>
World == <<"W","o","r","l","d">>
Wrold == <<"W","r","o","l","d">>
Apple == <<"A","p","p","l","e">>
banana == <<"b","a","n","a","n","a">>

Texts == {<<>>, Hello, World, <<" ","W","O","R","L","D">>, Apple, banana}

Queries ==
    {<<>>, <<" ">>, World, Wrold, <<"w","o","r">>, <<" ","W","O","R","\t">>,
     <<"^","A">>, <<"[">>, <<"l","{","2","}">>, <<"[","^","a","]">>,
     <<"a","{","4","2","9","4","9","6","7","2","9","6","}">>}

\* every text in the first box of the end-to-end scenario, one of them
\* also in its second box, on the next page
WordPool ==
    {Word(t, 0, 0, 10, 5, 0) : t \in Texts} \cup {Word(World, 12, 0, 22, 5, 1)}

WordSeqs == UNION {[1..n -> WordPool] : n \in 0..MaxWords}

Thresholds == {<<4, 5>>, <<1, 1>>, <<6, 5>>}

Names == {"exact", "fuzzy", "regex", "contains", "normalized", "Exact"}

KwargsSet == {<<>>} \cup {[threshold |-> t] : t \in Thresholds} \cup {[verbose |-> TRUE]}

----------------------------------------------------------------------------
(* The strategies module driven by one caller *)

Init ==
    /\ StrategyFactory_strategies = Registry
    /\ instance = None
    /\ op = "import"
    /\ args = <<>>
    /\ ret = None
    /\ uploaded_files = <<>>
    /\ disk = <<>>
    /\ effects = <<>>
    /\ shared_words = <<>>
    /\ calls = <<>>

NotApp == UNCHANGED <<uploaded_files, disk, effects, shared_words, calls>>

\* strategy = StrategyFactory.create(name, **kwargs); the strategy of the
\* request before is dropped
create(name, kwargs) ==
    /\ op' = "create"
    /\ args' = [name |-> name, kwargs |-> kwargs]
    /\ ret' = StrategyFactory_create(StrategyFactory_strategies, name, kwargs)
    /\ instance' = IF ret'.kind = "return" THEN ret'.value ELSE None
    /\ UNCHANGED StrategyFactory_strategies
    /\ NotApp

\* StrategyFactory.available_strategies()
available_strategies ==
    /\ op' = "available_strategies"
    /\ args' = <<>>
    /\ ret' = Return(StrategyFactory_available_strategies(StrategyFactory_strategies))
    /\ UNCHANGED <<StrategyFactory_strategies, instance>>
    /\ NotApp

\* bounds = strategy.find_matches(request.query, words) on an object of
\* class cls, once per strategy created as in match_text
call_find_matches(cls, query, words) ==
    /\ op = "create"
    /\ instance.cls = cls
    /\ op' = "find_matches"
    /\ args' = [query |-> query, words |-> words]
    /\ ret' = find_matches(instance, query, words)
    /\ UNCHANGED <<StrategyFactory_strategies, instance>>
    /\ NotApp

exact_find_matches ==
    \E q \in Queries, ws \in WordSeqs : call_find_matches("ExactMatchStrategy", q, ws)

fuzzy_find_matches ==
    \E q \in Queries, ws \in WordSeqs : call_find_matches("FuzzyMatchStrategy", q, ws)

regex_find_matches ==
    \E q \in Queries, ws \in WordSeqs : call_find_matches("RegexMatchStrategy", q, ws)

contains_find_matches ==
    \E q \in Queries, ws \in WordSeqs : call_find_matches("ContainsMatchStrategy", q, ws)

Next ==
    \/ \E name \in Names, kwargs \in KwargsSet : create(name, kwargs)
    \/ available_strategies
    \/ exact_find_matches
    \/ fuzzy_find_matches
    \/ regex_find_matches
    \/ contains_find_matches

Spec == Init /\ [][Next]_vars

----------------------------------------------------------------------------
(* Properties of the strategies and of the factory *)

IsFind(cls) == op = "find_matches" /\ instance.cls = cls

\* the record a matched word gives
BoxOf(w, confidence) ==
    [x0 |-> w.x0, y0 |-> w.y0, x1 |-> w.x1, y1 |-> w.y1, page |-> w.page,
     matched_text |-> w.text, confidence |-> confidence]

\* C1: the exact strategy returns one record of confidence 1.0 for each word
\* whose text equals the query character for character, in order, and none
\* for any other word; no word gives no record, and the empty query matches
\* the words of empty text only.
Thm_C1 ==
    IsFind("ExactMatchStrategy") =>
        LET Equal(w) == w.text = args.query
            hits == SelectSeq(args.words, Equal)
        IN  /\ ret.kind = "return"
            /\ ret.value = [k \in 1..Len(hits) |-> BoxOf(hits[k], One)]
            /\ args.words = <<>> => ret.value = <<>>
            /\ args.query = <<>> =>
                   \A k \in 1..Len(ret.value) : ret.value[k].matched_text = <<>>

\* the exact strategy found a word and passed over one that differs from
\* the query in case or blanks only
Witness_C1 ==
    /\ IsFind("ExactMatchStrategy")
    /\ ret.value # <<>>
    /\ \E i \in 1..Len(args.words) :
          /\ args.words[i].text # args.query
          /\ strip(lower(args.words[i].text)) = strip(lower(args.query))

\* C2: what find_matches returns is the image of a subsequence of the words:
\* strictly increasing indices exist such that the j-th record carries the
\* box, the page and the text of the word at the j-th index.
Thm_C2 ==
    (op = "find_matches" /\ ret.kind = "return") =>
        \E f \in [1..Len(ret.value) -> 1..Len(args.words)] :
           /\ \A j \in 1..(Len(ret.value) - 1) : f[j] < f[j + 1]
           /\ \A j \in 1..Len(ret.value) :
                 LET r == ret.value[j]
                     w == args.words[f[j]]
                 IN  /\ r.x0 = w.x0 /\ r.y0 = w.y0 /\ r.x1 = w.x1 /\ r.y1 = w.y1
                     /\ r.page = w.page
                     /\ r.matched_text = w.text

\* two different words were matched by a regular expression that is not
\* the text of either
Witness_C2 ==
    /\ IsFind("RegexMatchStrategy")
    /\ ret.kind = "return"
    /\ Len(ret.value) = 2
    /\ ret.value[1] # ret.value[2]
    /\ \A j \in 1..2 : ret.value[j].matched_text # args.query

Padded(s) ==
    {l \o s \o r : l \in {<<>>, <<" ">>, <<"\t", " ">>}, r \in {<<>>, <<" ">>, <<"\n">>}}

\* a letter in upper case, any other character as it is
upper_char(c) ==
    IF \E k \in 1..26 : Lower[k] = c
    THEN Upper[CHOOSE k \in 1..26 : Lower[k] = c]
    ELSE c

\* a string with the case of any of its letters changed
RECURSIVE Recased(_)
Recased(s) ==
    IF s = <<>> THEN {<<>>}
    ELSE {<<c>> \o t : c \in {lower_char(Head(s)), upper_char(Head(s))},
                       t \in Recased(Tail(s))}

\* the positions of the words the contains strategy matches
ContainsPositions(query, words) ==
    {i \in 1..Len(words) :
        ContainsMatchStrategy_find_matches(query, <<words[i]>>).value # <<>>}

Claim_C6 ==
    IsFind("RegexMatchStrategy") =>
        LET c == re_compile(args.query)
            Found(w) == search(c.pattern, w.text)
            hits == SelectSeq(args.words, Found)
        IN  /\ ret.kind = "return"
            /\ c.exc # "none" => ret.value = <<>>
            /\ c.exc = "none" => ret.value = [k \in 1..Len(hits) |-> BoxOf(hits[k], One)]

FourNames == <<"exact", "fuzzy", "regex", "contains">>

ClassOf(name) ==
    CASE name = "exact" -> "ExactMatchStrategy"
      [] name = "fuzzy" -> "FuzzyMatchStrategy"
      [] name = "regex" -> "RegexMatchStrategy"
      [] name = "contains" -> "ContainsMatchStrategy"

IsUnknownStrategy(r) ==
    /\ r.kind = "raise"
    /\ r.exc = "ValueError"
    /\ r.detail.available = FourNames

\* C7 as claimed: create returns a strategy of the named kind for each of
\* the four names whatever the configuration, and fails listing the four
\* names for any other name.
Claim_C7 ==
    op = "create" =>
        IF \E k \in 1..4 : FourNames[k] = args.name
        THEN ret.kind = "return" /\ ret.value.cls = ClassOf(args.name)
        ELSE IsUnknownStrategy(ret)

\* the keyword arguments the constructor of the named strategy takes
Accepts(name, kwargs) ==
    DOMAIN kwargs \subseteq (IF name = "fuzzy" THEN {"threshold"} ELSE {})

\* C7 amended: create returns a strategy of the named kind for each of the
\* four names when the constructor takes the keyword arguments, and lets
\* the constructor's TypeError out when it does not; any other name fails
\* listing the four names and leaves no strategy; available_strategies
\* returns the four names in their order; the registry never changes.
Thm_C7 ==
    /\ StrategyFactory_strategies = Registry
    /\ op = "available_strategies" => ret = Return(FourNames)
    /\ op = "create" =>
          IF \E k \in 1..4 : FourNames[k] = args.name
          THEN IF Accepts(args.name, args.kwargs)
               THEN /\ ret.kind = "return"
                    /\ ret.value.cls = ClassOf(args.name)
                    /\ instance = ret.value
               ELSE ret.kind = "raise" /\ ret.exc = "TypeError"
          ELSE /\ IsUnknownStrategy(ret)
               /\ ret.detail.unknown = args.name
               /\ instance = None

\* create was refused for the name "normalized"
Witness_C7 ==
    /\ op = "create"
    /\ args.name = "normalized"
    /\ ret.kind = "raise"

----------------------------------------------------------------------------
(* The fuzzy strategy with the query and the word's text swapped *)

Letters == {"a", "A", "b", "c"}

Strings == UNION {[1..n -> Letters] : n \in 0..MaxLen}

InitRatio ==
    /\ StrategyFactory_strategies = Registry
    /\ instance \in {[cls |-> "FuzzyMatchStrategy", threshold |-> t] :
                        t \in {<<1, 2>>, <<1, 1>>}}
    /\ op = "input"
    /\ args \in [a : Strings, b : Strings]
    /\ ret = None
    /\ uploaded_files = <<>>
    /\ disk = <<>>
    /\ effects = <<>>
    /\ shared_words = <<>>
    /\ calls = <<>>

\* find_matches(a, [word b]) and find_matches(b, [word a]) on the same
\* FuzzyMatchStrategy, with the ratio each call computes
swap ==
    /\ op = "input"
    /\ op' = "swap"
    /\ ret' = [ab |-> FuzzyMatchStrategy_find_matches(
                          instance, args.a, <<Word(args.b, 0, 0, 10, 5, 0)>>).value,
               ba |-> FuzzyMatchStrategy_find_matches(
                          instance, args.b, <<Word(args.a, 0, 0, 10, 5, 0)>>).value,
               ratio_ab |-> ratio(lower(args.a), lower(args.b)),
               ratio_ba |-> ratio(lower(args.b), lower(args.a))]
    /\ UNCHANGED <<StrategyFactory_strategies, instance, args>>
    /\ NotApp

NextRatio == swap

SpecRatio == InitRatio /\ [][NextRatio]_vars

\* C3 as claimed: the ratio of a against b is the ratio of b against a, and
\* a word matches in one order iff it matches in the other.
Claim_C3 ==
    op = "swap" =>
        /\ ret.ratio_ab = ret.ratio_ba
        /\ (ret.ab = <<>>) = (ret.ba = <<>>)

\* the characters of a string
Chars(s) == {s[k] : k \in 1..Len(s)}

\* C3 amended: swapping the two strings keeps a ratio of 1.0 (the strings
\* are equal but for case) and a ratio of 0.0 (the strings share no
\* character), and with them whether the word matches at threshold 1.0;
\* any other ratio may change.
Thm_C3 ==
    op = "swap" =>
        /\ (ret.ratio_ab = One) = (ret.ratio_ba = One)
        /\ (ret.ratio_ab = One) = (lower(args.a) = lower(args.b))
        /\ (ret.ratio_ab = Zero) = (ret.ratio_ba = Zero)
        /\ (ret.ratio_ab = Zero) =
              (Chars(lower(args.a)) \cap Chars(lower(args.b)) = {} /\ args.a \o args.b # <<>>)
        /\ instance.threshold = One => (ret.ab = <<>>) = (ret.ba = <<>>)
        /\ \A k \in 1..Len(ret.ab) : ret.ab[k].confidence = ret.ratio_ab
        /\ \A k \in 1..Len(ret.ba) : ret.ba[k].confidence = ret.ratio_ba

\* two strings that differ in case only matched each other at threshold 1.0
Witness_C3 ==
    /\ op = "swap"
    /\ args.a # args.b
    /\ instance.threshold = One
    /\ ret.ab # <<>>
    /\ ret.ba # <<>>

----------------------------------------------------------------------------
(* main.py: the request handlers *)

\* the file PDF_DIR / DEFAULT_PDF
DEFAULT_PDF == "whatisai.pdf"

\* what uuid.uuid4() can return
UUIDs == <<"uuid-1", "uuid-2", "uuid-3", "uuid-4">>

FileIds == {UUIDs[k] : k \in 1..MaxUploads}

\* UPLOAD_DIR / f"{file_id}.pdf"
UploadPath(file_id) == file_id

\* a PDF of one page with the two words of the end-to-end scenario
SamplePdf ==
    [valid |-> TRUE,
     words |-> <<Word(Hello, 0, 0, 10, 5, 0), Word(World, 12, 0, 22, 5, 0)>>,
     pages |-> <<[width |-> 612, height |-> 792]>>]

\* a file that is no PDF
NotAPdf == [valid |-> FALSE]

\* HTTPException(status_code=, detail=), or the 500 of an exception no
\* handler catches
Error(status_code, detail) == [status |-> status_code, detail |-> detail]

\* a handler's return value
Ok(body) == [status |-> 200, body |-> body]

\* extractor.extract_words: pdfplumber.open raises on a file that is no PDF
extract_words(content) ==
    IF content.valid THEN Return(content.words) ELSE Raise("PDFSyntaxError", <<>>)

\* extractor.get_page_dimensions
get_page_dimensions(content) ==
    IF content.valid THEN Return(content.pages) ELSE Raise("PDFSyntaxError", <<>>)

\* if file_id:
truthy(file_id) == file_id \notin {"None", ""}

\* get_pdf_path(file_id)
get_pdf_path(files, dsk, file_id) ==
    IF truthy(file_id)
    THEN IF file_id \notin DOMAIN files
         THEN Raise("HTTPException", Error(404, "Uploaded file not found"))
         ELSE IF files[file_id] \notin DOMAIN dsk
         THEN Raise("HTTPException", Error(404, "PDF file no longer exists"))
         ELSE Return(files[file_id])
    ELSE IF DEFAULT_PDF \notin DOMAIN dsk
         THEN Raise("HTTPException", Error(404, "PDF not found"))
         ELSE Return(DEFAULT_PDF)

\* match_text(request): the response and the collaborators called
match_text_run(files, dsk, request) ==
    LET pdf_path == get_pdf_path(files, dsk, request.file_id)
        kwargs == IF request.strategy = "fuzzy"
                  THEN [threshold |-> request.threshold] ELSE <<>>
        strategy == StrategyFactory_create(StrategyFactory_strategies,
                                           request.strategy, kwargs)
        extracted == extract_words(dsk[pdf_path.value])
        bounds == find_matches(strategy.value, request.query, extracted.value)
    IN  IF pdf_path.kind = "raise"
        THEN [response |-> pdf_path.detail, effects |-> <<"get_pdf_path">>]
        ELSE IF strategy.kind = "raise"
        THEN [response |-> Error(IF strategy.exc = "ValueError" THEN 400 ELSE 500,
                                 strategy.detail),
              effects |-> <<"get_pdf_path", "StrategyFactory.create">>]
        ELSE IF extracted.kind = "raise"
        THEN [response |-> Error(500, extracted.exc),
              effects |-> <<"get_pdf_path", "StrategyFactory.create", "extract_words">>]
        ELSE IF bounds.kind = "raise"
        THEN [response |-> Error(500, bounds.exc),
              effects |-> <<"get_pdf_path", "StrategyFactory.create", "extract_words",
                            "find_matches">>]
        ELSE [response |-> Ok([query |-> request.query, strategy |-> request.strategy,
                               bounds |-> bounds.value]),
              effects |-> <<"get_pdf_path", "StrategyFactory.create", "extract_words",
                            "find_matches">>]

\* list_strategies(): the "descriptions" dictionary
descriptions ==
    [exact |-> "Case-sensitive exact match",
     fuzzy |-> "Fuzzy matching with configurable threshold",
     regex |-> "Regular expression pattern matching",
     normalized |-> "Case-insensitive match with whitespace normalization"]

Filenames ==
    {<<>>, <<"a", ".", "p", "d", "f">>, <<"A", ".", "P", "D", "F">>,
     <<"a", ".", "t", "x", "t">>}

Requests ==
    [query : {World, <<"[">>, <<"a","{","4","2","9","4","9","6","7","2","9","6","}">>},
     strategy : {"exact", "fuzzy", "regex", "contains", "normalized"},
     threshold : {<<4, 5>>, <<1, 1>>},
     file_id : FileIds \cup {"None", "", "never-uploaded"}]

InitApp ==
    /\ StrategyFactory_strategies = Registry
    /\ instance = None
    /\ op = "import"
    /\ args = <<>>
    /\ ret = None
    /\ uploaded_files = <<>>
    /\ disk \in {<<>>, [p \in {DEFAULT_PDF} |-> SamplePdf]}
    /\ effects = <<>>
    /\ shared_words = <<>>
    /\ calls = <<>>

NotState == UNCHANGED <<StrategyFactory_strategies, instance, shared_words, calls>>

\* POST /upload; the file_id is one uuid4 has not returned before, and
\* writing the file can fail
upload_pdf(filename, content, written) ==
    /\ op' = "upload_pdf"
    /\ args' = [filename |-> filename, content |-> content]
    /\ effects' = <<>>
    /\ IF filename = <<>> \/ ~endswith(lower(filename), <<".", "p", "d", "f">>)
       THEN /\ ret' = Error(400, "Only PDF files are allowed")
            /\ UNCHANGED <<uploaded_files, disk>>
       ELSE \E file_id \in FileIds \ DOMAIN uploaded_files :
               IF written
               THEN /\ disk' = [p \in DOMAIN disk \cup {UploadPath(file_id)} |->
                                  IF p = UploadPath(file_id) THEN content ELSE disk[p]]
                    /\ uploaded_files' =
                          [f \in DOMAIN uploaded_files \cup {file_id} |->
                              IF f = file_id THEN UploadPath(file_id)
                              ELSE uploaded_files[f]]
                    /\ ret' = Ok([file_id |-> file_id, filename |-> filename])
               ELSE /\ ret' = Error(500, "Failed to save file")
                    /\ UNCHANGED <<uploaded_files, disk>>
    /\ NotState

\* POST /match
match_text(request) ==
    /\ op' = "match_text"
    /\ args' = request
    /\ LET run == match_text_run(uploaded_files, disk, request)
       IN  ret' = run.response /\ effects' = run.effects
    /\ UNCHANGED <<uploaded_files, disk>>
    /\ NotState

\* GET /strategies
list_strategies ==
    /\ op' = "list_strategies"
    /\ args' = <<>>
    /\ ret' = Ok([strategies |->
                     StrategyFactory_available_strategies(StrategyFactory_strategies),
                  descriptions |-> descriptions])
    /\ effects' = <<>>
    /\ UNCHANGED <<uploaded_files, disk>>
    /\ NotState

\* GET /extract/{filename}
extract_text(filename) ==
    /\ op' = "extract_text"
    /\ args' = filename
    /\ LET pdf_path == get_pdf_path(uploaded_files, disk, filename)
           extracted == extract_words(disk[pdf_path.value])
       IN  ret' = IF pdf_path.kind = "raise" THEN pdf_path.detail
                  ELSE IF extracted.kind = "raise" THEN Error(500, extracted.exc)
                  ELSE Ok([filename |-> filename,
                           word_count |-> Len(extracted.value),
                           words |-> extracted.value])
    /\ effects' = <<>>
    /\ UNCHANGED <<uploaded_files, disk>>
    /\ NotState

\* GET /dimensions/{filename}
pdf_dimensions(filename) ==
    /\ op' = "pdf_dimensions"
    /\ args' = filename
    /\ LET pdf_path == get_pdf_path(uploaded_files, disk, filename)
           dimensions == get_page_dimensions(disk[pdf_path.value])
       IN  ret' = IF pdf_path.kind = "raise" THEN pdf_path.detail
                  ELSE IF dimensions.kind = "raise" THEN Error(500, dimensions.exc)
                  ELSE Ok([filename |-> filename, pages |-> dimensions.value])
    /\ effects' = <<>>
    /\ UNCHANGED <<uploaded_files, disk>>
    /\ NotState

\* GET /health
health_check ==
    /\ op' = "health_check"
    /\ args' = <<>>
    /\ ret' = Ok([status |-> "healthy"])
    /\ effects' = <<>>
    /\ UNCHANGED <<uploaded_files, disk>>
    /\ NotState

\* the system's temporary directory loses an uploaded file
temp_file_removed(path) ==
    /\ path \in DOMAIN disk
    /\ path # DEFAULT_PDF
    /\ disk' = [p \in DOMAIN disk \ {path} |-> disk[p]]
    /\ UNCHANGED <<uploaded_files, op, args, ret, effects>>
    /\ NotState

NextApp ==
    \/ \E filename \in Filenames, content \in {SamplePdf, NotAPdf}, written \in BOOLEAN :
          upload_pdf(filename, content, written)
    \/ \E request \in Requests : match_text(request)
    \/ list_strategies
    \/ \E filename \in FileIds \cup {"never-uploaded"} : extract_text(filename)
    \/ \E filename \in FileIds \cup {"never-uploaded"} : pdf_dimensions(filename)
    \/ health_check
    \/ \E path \in FileIds : temp_file_removed(path)

SpecApp == InitApp /\ [][NextApp]_vars

\* C8: a match request for a strategy that is not registered ends in the
\* client error that lists the four names, raised when the strategy is
\* created and before any word is extracted or matched, whatever the
\* document the request refers to.
Claim_C8 ==
    (op = "match_text" /\ \A k \in 1..4 : FourNames[k] # args.strategy) =>
        /\ ret.status = 400
        /\ ret.detail.available = FourNames
        /\ effects[Len(effects)] = "StrategyFactory.create"

\* C9: the keys of the descriptions list_strategies returns are the names
\* available_strategies returns, the four registered ones.
Claim_C9 ==
    op = "list_strategies" =>
        /\ ret.body.strategies = FourNames
        /\ DOMAIN ret.body.descriptions =
              {ret.body.strategies[k] : k \in 1..Len(ret.body.strategies)}

----------------------------------------------------------------------------
(* Concurrent callers of find_matches on shared strategy objects and one   *)
(* shared word list; each caller runs the loop of its strategy one word at *)
(* a time.                                                                 *)

Callers == 1..NumCallers

IdleFrame ==
    [pc |-> "idle", cls |-> "None", query |-> <<>>, local |-> <<>>,
     i |-> 0, matches |-> <<>>, ret |-> None]

\* the strategy object of a class: the FuzzyMatchStrategy is the one in
\* instance, the other classes have no attribute
SelfOf(cls) == IF cls = "FuzzyMatchStrategy" THEN instance ELSE [cls |-> cls]

\* find_matches up to its loop: matches = [], and re.compile or the
\* normalised query
frame_at_entry(cls, query) ==
    LET c == re_compile(query)
        f == [IdleFrame EXCEPT !.cls = cls, !.query = query]
    IN  CASE cls = "RegexMatchStrategy" ->
               IF c.exc = "re.error" THEN [f EXCEPT !.pc = "return"]
               ELSE IF c.exc # "none"
               THEN [f EXCEPT !.pc = "done", !.ret = Raise(c.exc, query)]
               ELSE [f EXCEPT !.pc = "for", !.local = c.pattern]
          [] cls = "ContainsMatchStrategy" ->
               [f EXCEPT !.pc = "for", !.local = normalize(query)]
          [] OTHER -> [f EXCEPT !.pc = "for"]

\* one pass through the body of the loop of the frame's strategy
loop_body(f, self, word) ==
    CASE f.cls = "ExactMatchStrategy" -> ExactMatchStrategy_body(f.query, word, f.matches)
      [] f.cls = "FuzzyMatchStrategy" -> FuzzyMatchStrategy_body(self, f.query, word, f.matches)
      [] f.cls = "RegexMatchStrategy" -> RegexMatchStrategy_body(f.local, word, f.matches)
      [] f.cls = "ContainsMatchStrategy" -> ContainsMatchStrategy_body(f.local, word, f.matches)

\* the frames after caller c went through the body once, had matches been
\* an attribute of the strategy object instead of a local variable
after_iteration_shared(cs, c, self, words) ==
    LET m == loop_body(cs[c], self, words[cs[c].i + 1])
    IN  [d \in DOMAIN cs |->
            IF d = c THEN [cs[c] EXCEPT !.i = @ + 1, !.matches = m]
            ELSE IF cs[d].cls = cs[c].cls /\ cs[d].pc = "for"
            THEN [cs[d] EXCEPT !.matches = m]
            ELSE cs[d]]

\* the frames after caller c went through the body of its loop once
after_iteration(cs, c, self, words) ==
    [cs EXCEPT ![c] = [@ EXCEPT !.i = @ + 1,
                                !.matches = loop_body(cs[c], self, words[cs[c].i + 1])]]

ConcQueries == {World, <<"[">>}

ConcWordLists ==
    {<<Word(Hello, 0, 0, 10, 5, 0), Word(World, 12, 0, 22, 5, 0)>>,
     <<Word(World, 0, 0, 10, 5, 0), Word(Wrold, 12, 0, 22, 5, 1)>>}

InitConc ==
    /\ StrategyFactory_strategies = Registry
    /\ instance \in {[cls |-> "FuzzyMatchStrategy", threshold |-> t] :
                        t \in {<<4, 5>>, <<1, 1>>}}
    /\ op = "import"
    /\ args = <<>>
    /\ ret = None
    /\ uploaded_files = <<>>
    /\ disk = <<>>
    /\ effects = <<>>
    /\ shared_words \in ConcWordLists
    /\ calls = [c \in Callers |-> IdleFrame]

NotCalls ==
    UNCHANGED <<StrategyFactory_strategies, instance, op, args, ret,
                uploaded_files, disk, effects, shared_words>>

\* caller c calls find_matches(query, shared_words) on the object of cls
call_enter(c, cls, query) ==
    /\ calls[c].pc \in {"idle", "done"}
    /\ calls' = [calls EXCEPT ![c] = frame_at_entry(cls, query)]
    /\ NotCalls

\* caller c takes the next word
call_iterate(c) ==
    /\ calls[c].pc = "for"
    /\ calls[c].i < Len(shared_words)
    /\ calls' = after_iteration(calls, c, SelfOf(calls[c].cls), shared_words)
    /\ NotCalls

\* caller c returns matches
call_return(c) ==
    /\ \/ calls[c].pc = "return"
       \/ calls[c].pc = "for" /\ calls[c].i >= Len(shared_words)
    /\ calls' = [calls EXCEPT ![c] = [@ EXCEPT !.pc = "done",
                                               !.ret = Return(calls[c].matches)]]
    /\ NotCalls

NextConc ==
    \E c \in Callers :
       \/ \E name \in 1..4, query \in ConcQueries : call_enter(c, Registry[name][2], query)
       \/ call_iterate(c)
       \/ call_return(c)

SpecConc == InitConc /\ [][NextConc]_vars

\* C10: whatever the interleaving, a call that is over returned what
\* find_matches returns run alone on its query, the shared words and the
\* strategy's threshold; no step changes the words, the threshold or the
\* registry.
Thm_C10 ==
    /\ [](\A c \in Callers :
             calls[c].pc = "done" =>
                calls[c].ret = find_matches(SelfOf(calls[c].cls), calls[c].query,
                                            shared_words))
    /\ [][/\ shared_words' = shared_words
          /\ instance' = instance
          /\ StrategyFactory_strategies' = StrategyFactory_strategies]_vars

\* a call on the shared fuzzy strategy is over with its two matches while
\* another call on the same object is halfway through the words
Witness_C10 ==
    /\ calls[1].pc = "done"
    /\ calls[1].cls = "FuzzyMatchStrategy"
    /\ calls[1].ret.kind = "return"
    /\ Len(calls[1].ret.value) = 2
    /\ calls[2].pc = "for"
    /\ calls[2].cls = "FuzzyMatchStrategy"
    /\ calls[2].i = 1

====
